---- MODULE Spec2Model ----
(***************************************************************************)
(* MarbleMachine: the capture loop of main.py (contour variant) and        *)
(* test.py (centroid variant), from the option block to the interrupt      *)
(* handler.  Numbers that the script rounds to three decimals are carried  *)
(* as integers in thousandths; intermediate values in millionths.          *)
(***************************************************************************)
EXTENDS Integers, Sequences, FiniteSets, TLC

VARIABLES
    variant,                 \* "main" (main.py) or "test" (test.py)
    arguments,               \* the dictionary parsed from sys.argv
    program_input_filename,
    program_initial_speed,
    program_debug,
    pi_mode,
    skeletonize,             \* test.py: is the free name bound in the namespace
    contours,                \* the name `contours` (Unbound until assigned)
    pc,                      \* position of the script
    stage,                   \* index of the next image-processing statement
    iteration,               \* loop iterations started
    image,                   \* the name `image`
    centers,
    gcode,
    gcode_temp,
    outFile,                 \* the file at program_output_filename
    window,                  \* a cv2 window is open
    cap,                     \* the cv2.VideoCapture handle
    captured,                \* iteration in which the last frame was captured
    gpio,                    \* RPi.GPIO channel state
    exitKind,                \* why the process ended
    triggers,                \* input() / GPIO.wait_for_edge calls that returned
    mapAxis, mapIn, mapOut   \* the coordinate mapper taken alone

vars == <<variant, arguments, program_input_filename, program_initial_speed,
          program_debug, pi_mode, skeletonize, contours, pc, stage, iteration,
          image, centers, gcode, gcode_temp, outFile, window, cap, captured,
          gpio, exitKind, triggers, mapAxis, mapIn, mapOut>>

cfgVars == <<variant, arguments, program_initial_speed, program_debug, pi_mode,
             skeletonize>>
mapVars == <<mapAxis, mapIn, mapOut>>

----------------------------------------------------------------------------
(* Bounds *)
MaxIter == 2
MaxFeatures == 2

(* Program constants *)
program_maximum_x == 613
program_maximum_y == 548
program_border_x == 50
program_border_y == 50
DefaultSpeed == 5000
CanvasSize == 1000

None == [kind |-> "None"]
Unbound == <<"unbound">>
NoLines == <<>>

SeqsUpTo(S, n) == UNION {[1..k -> S] : k \in 0..n}

(* Blobs as cv2.moments reports them: zeroth and first raw moments. *)
Blob(a, sx, sy) == [m00 |-> a, m10 |-> sx, m01 |-> sy]
BlobSet == { Blob(0, 0, 0),            \* degenerate, zero area
             Blob(2, 612, 548),        \* centroid (306, 274)
             Blob(2, 614, 548),        \* centroid (307, 274), same distance
             Blob(4, 2001, 2003) }     \* centroid (500.25, 500.75)
Pictures == SeqsUpTo(BlobSet, MaxFeatures)

(* Values an embedding namespace can give the name `contours` in main.py. *)
ContourSet == { << <<0, 0>>, <<1000, 1000>> >>, << <<500, 500>> >> }
ContourLists == SeqsUpTo(ContourSet, MaxFeatures)

----------------------------------------------------------------------------
(* os.path.join(maindirectory, "temp", name): never the empty string. *)
JoinTemp(name) == IF name = "" THEN "temp/" ELSE "temp/" \o name

DefaultInput(v) == IF v = "main" THEN "input.png" ELSE "circle.png"

(* round(x) with the digits left out: nearest whole unit, in thousandths *)
RoundToUnit(u) ==
    LET q == u \div 1000000
        r == u % 1000000
    IN  1000 * (IF r > 500000 \/ (r = 500000 /\ q % 2 = 1) THEN q + 1 ELSE q)

(* round(x, 3) on a value given in millionths: nearest thousandth, ties to even *)
Round3(u) ==
    LET q == u \div 1000
        r == u % 1000
    IN  IF r > 500 \/ (r = 500 /\ q % 2 = 1) THEN q + 1 ELSE q

(* the margin taken off once instead of twice *)
ScaledOneBorder(max, border, c) == ((max - border) * 1000) * c + border * 1000000

(* ((max - 2*border)/1000) * c + border, in millionths *)
Scaled(max, border, c) == ((max - 2 * border) * 1000) * c + border * 1000000

printer_x(c) == Round3(Scaled(program_maximum_x, program_border_x, c))
printer_y(c) == Round3(Scaled(program_maximum_y, program_border_y, c))
(* Z mirrors Y whatever the debug flag *)
printer_z_mirror(debug, c) ==
    Round3(Scaled(program_maximum_y, program_border_y, c))
printer_z(debug, c) ==
    IF debug THEN Round3(0)
    ELSE Round3(Scaled(program_maximum_y, program_border_y, c))

G0(debug, p) == [cmd |-> "G0", x |-> printer_x(p[1]), y |-> printer_y(p[2]),
                 z |-> printer_z(debug, p[2])]
M203(speed) == [cmd |-> "M203", x |-> speed, y |-> speed, z |-> speed]

RECURSIVE MotionLines(_, _)
MotionLines(debug, pts) ==
    IF pts = <<>> THEN <<>>
    ELSE <<G0(debug, Head(pts))>> \o MotionLines(debug, Tail(pts))

RECURSIVE Flatten(_)
Flatten(cs) == IF cs = <<>> THEN <<>> ELSE Head(cs) \o Flatten(Tail(cs))

(* gcode = "" followed by the feed-rate line when the speed is not 0 *)
Preamble(speed) == IF speed # 0 THEN <<M203(speed)>> ELSE <<>>

(* no area test: a blob of zero area is given the center (0, 0) *)
RECURSIVE CentersKeepZero(_)
CentersKeepZero(bs) ==
    IF bs = <<>> THEN <<>>
    ELSE LET M == Head(bs)
         IN  IF M.m00 # 0
             THEN << <<M.m10 \div M.m00, M.m01 \div M.m00>> >>
                      \o CentersKeepZero(Tail(bs))
             ELSE << <<0, 0>> >> \o CentersKeepZero(Tail(bs))

(* centers of the blobs with M["m00"] != 0, int() truncating *)
RECURSIVE Centers(_)
Centers(bs) ==
    IF bs = <<>> THEN <<>>
    ELSE LET M == Head(bs)
         IN  IF M.m00 # 0
             THEN << <<M.m10 \div M.m00, M.m01 \div M.m00>> >> \o Centers(Tail(bs))
             ELSE Centers(Tail(bs))

(* the sort key, squared and scaled by 4: distance to (max_x/2, max_y/2) *)
DistKey(c) == (2 * c[1] - program_maximum_x) * (2 * c[1] - program_maximum_x)
            + (2 * c[2] - program_maximum_y) * (2 * c[2] - program_maximum_y)

(* the insertion placing a center ahead of the centers at equal distance *)
RECURSIVE InsertTiesFirst(_, _)
InsertTiesFirst(c, s) ==
    IF s = <<>> THEN <<c>>
    ELSE IF DistKey(Head(s)) < DistKey(c)
         THEN <<Head(s)>> \o InsertTiesFirst(c, Tail(s))
         ELSE <<c>> \o s

(* sorted(): stable, ascending by key *)
RECURSIVE InsertByKey(_, _)
InsertByKey(c, s) ==
    IF s = <<>> THEN <<c>>
    ELSE IF DistKey(Head(s)) <= DistKey(c)
         THEN <<Head(s)>> \o InsertByKey(c, Tail(s))
         ELSE <<c>> \o s

RECURSIVE Sorted(_)
Sorted(s) ==
    IF s = <<>> THEN <<>>
    ELSE InsertByKey(s[Len(s)], Sorted(SubSeq(s, 1, Len(s) - 1)))

----------------------------------------------------------------------------
(* The image-processing statements of each script, in order, and whether a  *)
(* cv2.imshow / waitKey / destroyAllWindows triple follows each of them.    *)
Stages(v) ==
    IF v = "main"
    THEN << [op |-> "cvtColor",          show |-> "never"],
            [op |-> "bitwise_not",       show |-> "never"],
            [op |-> "threshold",         show |-> "never"],
            [op |-> "resize",            show |-> "never"],
            [op |-> "distanceTransform", show |-> "never"],
            [op |-> "normalize",         show |-> "never"],
            [op |-> "threshold254",      show |-> "always"] >>
    ELSE << [op |-> "cvtColor",          show |-> "debug"],
            [op |-> "bitwise_not",       show |-> "debug"],
            [op |-> "threshold",         show |-> "debug"],
            [op |-> "resize",            show |-> "debug"],
            [op |-> "distanceTransform", show |-> "never"],
            [op |-> "normalize",         show |-> "debug"],
            [op |-> "skeletonize",       show |-> "debug"],
            [op |-> "uint8",             show |-> "debug"],
            [op |-> "findContours",      show |-> "debug"] >>

Shows(v, k, debug) ==
    LET s == Stages(v)[k].show IN s = "always" \/ (s = "debug" /\ debug)

(* where the script continues once statement k and its display are done *)
AfterStage(v, k) ==
    IF k < Len(Stages(v)) THEN "process"
    ELSE IF v = "test" THEN "centers" ELSE "init_gcode"

(* cv2.imread: no exception on a missing or unreadable file, it returns None *)
Readable(name) == name # "temp/"
Img(blobs) == [kind |-> "img", blobs |-> blobs]
ImreadResults(v, name) ==
    {None} \cup
    (IF Readable(name)
     THEN {Img(b) : b \in (IF v = "test" THEN Pictures ELSE {<<>>})}
     ELSE {})

(* the wait skipped whenever a file name is set *)
WaitOnlyWithoutName(name) == name = ""
(* the condition of line 252 *)
WaitForTrigger(name) == name # ""

(* the file opened in append mode *)
OpenedAppend(f) == [exists |-> TRUE, lines |-> f.lines]
(* open(program_output_filename, "w") *)
Opened(f) == [exists |-> TRUE, lines |-> NoLines]
(* f.write(gcode) and the close that ends the with block *)
Written(f, g) == [exists |-> TRUE, lines |-> f.lines \o g]

(* the loop that converts the features to gcode: <<gcode, gcode_temp>> after *)
Converted(v, debug, g, gt, cs, ctrs) ==
    IF v = "main"
    THEN <<g, gt \o MotionLines(debug, Flatten(cs))>>
    ELSE <<g \o MotionLines(debug, ctrs), gt>>

TryPcs == {"loop", "import", "process", "imshow", "waitKey", "centers", "sort",
           "init_gcode", "convert", "open", "write", "done", "await"}

----------------------------------------------------------------------------
(* The option block is the configuration: each option ranges over its      *)
(* shipped value and the alternative the script tests for.  skeletonize    *)
(* (test.py) and contours (main.py) are free names of the scripts: run as  *)
(* python3 <file> they are unbound; run inside a namespace that already    *)
(* holds them (runpy with init_globals, IPython %run -i) they resolve.     *)
Init ==
    /\ variant \in {"main", "test"}
    /\ arguments \in [bed_shake : BOOLEAN]
    /\ program_input_filename \in {"", DefaultInput(variant)}
    /\ program_initial_speed \in {0, DefaultSpeed}
    /\ program_debug \in BOOLEAN
    /\ pi_mode \in BOOLEAN
    /\ skeletonize \in (IF variant = "test" THEN BOOLEAN ELSE {FALSE})
    /\ contours \in (IF variant = "main" THEN {Unbound} \cup ContourLists
                     ELSE {Unbound})
    /\ pc = "start"
    /\ stage = 1
    /\ iteration = 0
    /\ image = None
    /\ centers = <<>>
    /\ gcode = <<>>
    /\ gcode_temp = <<>>
    /\ outFile = [exists |-> FALSE, lines |-> NoLines]
    /\ window = FALSE
    /\ cap = "none"
    /\ captured = 0
    /\ gpio = "unset"
    /\ exitKind = "running"
    /\ triggers = 0
    /\ mapAxis = "x" /\ mapIn = 0 /\ mapOut = 0

(* lines 100-115: GPIO setup in pi mode, the two os.path.join calls *)
Setup ==
    /\ pc = "start"
    /\ gpio' = IF pi_mode THEN "setup" ELSE gpio
    /\ program_input_filename' = JoinTemp(program_input_filename)
    /\ pc' = "loop"
    /\ UNCHANGED <<cfgVars, mapVars, triggers, contours, stage, iteration, image, centers,
                   gcode, gcode_temp, outFile, window, cap, captured, exitKind>>

(* lines 117-131: the top of the loop and the webcam branch *)
LoopTop ==
    /\ pc = "loop"
    /\ iteration < MaxIter
    /\ iteration' = iteration + 1
    /\ IF program_input_filename = ""
       THEN /\ triggers' = triggers + 1
            /\ cap' = "open"
            /\ captured' = iteration + 1
            /\ program_input_filename' = JoinTemp("webcam_capture.png")
       ELSE UNCHANGED <<triggers, cap, captured, program_input_filename>>
    /\ pc' = "import"
    /\ UNCHANGED <<cfgVars, mapVars, contours, stage, image, centers, gcode,
                   gcode_temp, outFile, window, gpio, exitKind>>

(* lines 133-140: cv2.imread *)
Import ==
    /\ pc = "import"
    /\ \E r \in ImreadResults(variant, program_input_filename) : image' = r
    /\ stage' = 1
    /\ pc' = "process"
    /\ UNCHANGED <<cfgVars, mapVars, triggers, program_input_filename, contours, iteration,
                   centers, gcode, gcode_temp, outFile, window, cap, captured,
                   gpio, exitKind>>

(* one image-processing statement that succeeds *)
Process ==
    /\ pc = "process"
    /\ LET op == Stages(variant)[stage].op
       IN  /\ op = "cvtColor" => image # None
           /\ op = "skeletonize" => skeletonize
           /\ contours' = IF op = "findContours" THEN image.blobs ELSE contours
    /\ pc' = IF Shows(variant, stage, program_debug) THEN "imshow"
             ELSE AfterStage(variant, stage)
    /\ stage' = IF Shows(variant, stage, program_debug) THEN stage ELSE stage + 1
    /\ UNCHANGED <<cfgVars, mapVars, triggers, program_input_filename, iteration, image,
                   centers, gcode, gcode_temp, outFile, window, cap, captured,
                   gpio, exitKind>>

(* line 144 on image = None: cv2.error, which nothing catches *)
CvtColorError ==
    /\ pc = "process"
    /\ Stages(variant)[stage].op = "cvtColor"
    /\ image = None
    /\ pc' = "exited"
    /\ exitKind' = "cv2.error"
    /\ UNCHANGED <<cfgVars, mapVars, triggers, program_input_filename, contours, stage,
                   iteration, image, centers, gcode, gcode_temp, outFile, window,
                   cap, captured, gpio>>

(* test.py line 215: skeletonize is imported nowhere *)
SkeletonizeNameError ==
    /\ pc = "process"
    /\ Stages(variant)[stage].op = "skeletonize"
    /\ ~skeletonize
    /\ pc' = "exited"
    /\ exitKind' = "NameError"
    /\ UNCHANGED <<cfgVars, mapVars, triggers, program_input_filename, contours, stage,
                   iteration, image, centers, gcode, gcode_temp, outFile, window,
                   cap, captured, gpio>>

(* cv2.imshow, then the script blocks in cv2.waitKey(0) *)
ImShow ==
    /\ pc = "imshow"
    /\ window' = TRUE
    /\ pc' = "waitKey"
    /\ UNCHANGED <<cfgVars, mapVars, triggers, program_input_filename, contours, stage,
                   iteration, image, centers, gcode, gcode_temp, outFile, cap,
                   captured, gpio, exitKind>>

(* a key is pressed: waitKey returns and cv2.destroyAllWindows runs *)
KeyPress ==
    /\ pc = "waitKey"
    /\ window' = FALSE
    /\ pc' = AfterStage(variant, stage)
    /\ stage' = stage + 1
    /\ UNCHANGED <<cfgVars, mapVars, triggers, program_input_filename, contours, iteration,
                   image, centers, gcode, gcode_temp, outFile, cap, captured,
                   gpio, exitKind>>

(* test.py lines 253-260 *)
ComputeCenters ==
    /\ pc = "centers"
    /\ centers' = Centers(contours)
    /\ pc' = "sort"
    /\ UNCHANGED <<cfgVars, mapVars, triggers, program_input_filename, contours, stage,
                   iteration, image, gcode, gcode_temp, outFile, window, cap,
                   captured, gpio, exitKind>>

(* test.py lines 262-265 *)
SortCenters ==
    /\ pc = "sort"
    /\ centers' = Sorted(centers)
    /\ pc' = "init_gcode"
    /\ UNCHANGED <<cfgVars, mapVars, triggers, program_input_filename, contours, stage,
                   iteration, image, gcode, gcode_temp, outFile, window, cap,
                   captured, gpio, exitKind>>

(* main.py lines 189-195, test.py lines 267-272 *)
InitGcode ==
    /\ pc = "init_gcode"
    /\ gcode' = Preamble(program_initial_speed)
    /\ gcode_temp' = <<>>
    /\ pc' = "convert"
    /\ UNCHANGED <<cfgVars, mapVars, triggers, program_input_filename, contours, stage,
                   iteration, image, centers, outFile, window, cap, captured,
                   gpio, exitKind>>

(* main.py lines 197-242, test.py lines 274-294 *)
Convert ==
    /\ pc = "convert"
    /\ variant = "main" => contours # Unbound
    /\ LET r == Converted(variant, program_debug, gcode, gcode_temp, contours,
                          centers)
       IN  gcode' = r[1] /\ gcode_temp' = r[2]
    /\ pc' = "open"
    /\ UNCHANGED <<cfgVars, mapVars, triggers, program_input_filename, contours, stage,
                   iteration, image, centers, outFile, window, cap, captured,
                   gpio, exitKind>>

(* main.py line 199: nothing assigns contours *)
ContoursNameError ==
    /\ pc = "convert"
    /\ variant = "main"
    /\ contours = Unbound
    /\ pc' = "exited"
    /\ exitKind' = "NameError"
    /\ UNCHANGED <<cfgVars, mapVars, triggers, program_input_filename, contours, stage,
                   iteration, image, centers, gcode, gcode_temp, outFile, window,
                   cap, captured, gpio>>

(* with open(program_output_filename, "w") as f: the file is truncated *)
OpenOutput ==
    /\ pc = "open"
    /\ outFile' = Opened(outFile)
    /\ pc' = "write"
    /\ UNCHANGED <<cfgVars, mapVars, triggers, program_input_filename, contours, stage,
                   iteration, image, centers, gcode, gcode_temp, window, cap,
                   captured, gpio, exitKind>>

(* f.write(gcode), end of the with block *)
WriteOutput ==
    /\ pc = "write"
    /\ outFile' = Written(outFile, gcode)
    /\ pc' = "done"
    /\ UNCHANGED <<cfgVars, mapVars, triggers, program_input_filename, contours, stage,
                   iteration, image, centers, gcode, gcode_temp, window, cap,
                   captured, gpio, exitKind>>

(* lines 250-252: is there a wait before the next iteration *)
AfterWrite ==
    /\ pc = "done"
    /\ pc' = IF WaitForTrigger(program_input_filename) THEN "await" ELSE "loop"
    /\ UNCHANGED <<cfgVars, mapVars, triggers, program_input_filename, contours, stage,
                   iteration, image, centers, gcode, gcode_temp, outFile, window,
                   cap, captured, gpio, exitKind>>

(* GPIO.wait_for_edge (pi mode) or input() returns: the trigger arrived *)
Trigger ==
    /\ pc = "await"
    /\ triggers' = triggers + 1
    /\ pc' = "loop"
    /\ UNCHANGED <<cfgVars, mapVars, program_input_filename, contours, stage,
                   iteration, image, centers, gcode, gcode_temp, outFile, window,
                   cap, captured, gpio, exitKind>>

(* lines 262-266: KeyboardInterrupt anywhere inside the try block *)
Interrupt ==
    /\ pc \in TryPcs
    /\ gpio' = IF pi_mode THEN "cleaned" ELSE gpio
    /\ pc' = "exited"
    /\ exitKind' = "interrupt"
    /\ UNCHANGED <<cfgVars, mapVars, triggers, program_input_filename, contours, stage,
                   iteration, image, centers, gcode, gcode_temp, outFile, window,
                   cap, captured>>

Next ==
    \/ Setup \/ LoopTop \/ Import \/ Process \/ CvtColorError
    \/ SkeletonizeNameError \/ ImShow \/ KeyPress \/ ComputeCenters
    \/ SortCenters \/ InitGcode \/ Convert \/ ContoursNameError \/ OpenOutput
    \/ WriteOutput \/ AfterWrite \/ Trigger \/ Interrupt

Spec == Init /\ [][Next]_vars

----------------------------------------------------------------------------
(* The coordinate mapper taken alone: every canvas coordinate, each axis.   *)
Mapped(axis, c) == IF axis = "x" THEN printer_x(c) ELSE printer_y(c)

InitMap ==
    /\ variant = "main"
    /\ arguments = [bed_shake |-> FALSE]
    /\ program_input_filename = DefaultInput("main")
    /\ program_initial_speed = DefaultSpeed
    /\ program_debug = TRUE
    /\ pi_mode = FALSE
    /\ skeletonize = FALSE
    /\ contours = Unbound
    /\ pc = "map"
    /\ stage = 1
    /\ iteration = 0
    /\ image = None
    /\ centers = <<>>
    /\ gcode = <<>>
    /\ gcode_temp = <<>>
    /\ outFile = [exists |-> FALSE, lines |-> NoLines]
    /\ window = FALSE
    /\ cap = "none"
    /\ captured = 0
    /\ gpio = "unset"
    /\ exitKind = "running"
    /\ triggers = 0
    /\ mapAxis \in {"x", "y"}
    /\ mapIn \in 0..CanvasSize
    /\ mapOut = 0

(* the first point of a run is mapped *)
MapPoint ==
    /\ pc = "map"
    /\ mapOut' = Mapped(mapAxis, mapIn)
    /\ pc' = "mapped"
    /\ UNCHANGED <<cfgVars, triggers, program_input_filename, contours, stage,
                   iteration, image, centers, gcode, gcode_temp, outFile, window,
                   cap, captured, gpio, exitKind, mapAxis, mapIn>>

(* the next point, anywhere on the canvas, is mapped *)
MapStep ==
    /\ pc = "mapped"
    /\ \E c \in 0..CanvasSize :
          /\ mapIn' = c
          /\ mapOut' = Mapped(mapAxis, c)
    /\ UNCHANGED <<cfgVars, triggers, program_input_filename, contours, stage,
                   iteration, image, centers, gcode, gcode_temp, outFile, window,
                   cap, captured, gpio, exitKind, mapAxis, pc>>

NextMap == MapPoint \/ MapStep

SpecMap == InitMap /\ [][NextMap]_vars

----------------------------------------------------------------------------
(* Properties *)

IsMotion(l) == l.cmd = "G0"
Range(s) == {s[i] : i \in 1..Len(s)}
FileWritten == pc \in {"done", "await"}
(* the ordered points the conversion loop of the iteration is given *)
PointsHandedOver == IF variant = "main" THEN Flatten(contours) ELSE centers

(* C1: once the file of an iteration is written it holds, after the single  *)
(* M203 line of a nonzero initial speed, exactly one G0 line per point      *)
(* handed to the conversion loop, in the order of the points; in both       *)
(* variants.                                                                *)
C1_OneMotionLinePerPoint ==
    FileWritten =>
        outFile.lines = Preamble(program_initial_speed)
                          \o MotionLines(program_debug, PointsHandedOver)

(* C2: with bed_shake given, the written file begins with 25 G0 Z lines     *)
(* that alternate between Z0 and Z1, ahead of the feed-rate line and of     *)
(* every motion line; without it no such line is written.                   *)
IsShake(l) == l.cmd = "G0 Z"
C2_BedShakePreamble ==
    FileWritten =>
        IF arguments.bed_shake
        THEN /\ Len(outFile.lines) >= 25
             /\ \A i \in 1..25 : /\ IsShake(outFile.lines[i])
                                 /\ outFile.lines[i].z \in {0, 1}
             /\ \A i \in 1..24 : outFile.lines[i].z # outFile.lines[i + 1].z
             /\ \A i \in 26..Len(outFile.lines) : ~IsShake(outFile.lines[i])
        ELSE \A i \in 1..Len(outFile.lines) : ~IsShake(outFile.lines[i])

(* C3: the mapper sends 0 to the border and 1000 to max - border (50, and   *)
(* 563 on X, 498 on Y), keeps every coordinate of 0..1000 between the two,  *)
(* and never decreases when the canvas coordinate does not decrease.        *)
AxisMax(axis) == IF axis = "x" THEN program_maximum_x ELSE program_maximum_y
AxisBorder(axis) == IF axis = "x" THEN program_border_x ELSE program_border_y
MapperEnds ==
    pc = "mapped" =>
        /\ mapIn = 0 => mapOut = 1000 * AxisBorder(mapAxis) /\ mapOut = 50000
        /\ mapIn = 1000 =>
              /\ mapOut = 1000 * (AxisMax(mapAxis) - AxisBorder(mapAxis))
              /\ mapOut = IF mapAxis = "x" THEN 563000 ELSE 498000
        /\ 2 * AxisBorder(mapAxis) < AxisMax(mapAxis) =>
              /\ mapOut >= 1000 * AxisBorder(mapAxis)
              /\ mapOut <= 1000 * (AxisMax(mapAxis) - AxisBorder(mapAxis))
MapperMonotone == (pc = "mapped" /\ mapIn' >= mapIn) => mapOut' >= mapOut
C3_MapperMonotoneInBounds == []MapperEnds /\ [][MapperMonotone]_vars
C3_Witness ==
    pc = "mapped" /\ mapAxis = "x" /\ mapIn = 1000 /\ mapOut = 563000

(* C4: every motion line the conversion loop produced has Z = 0 when the    *)
(* debug flag is set, and Z equal to its own Y when it is not.              *)
MotionLinesProduced ==
    {l \in Range(gcode) \cup Range(gcode_temp) \cup Range(outFile.lines) :
        IsMotion(l)}
C4_DebugPinsZ ==
    \A l \in MotionLinesProduced : IF program_debug THEN l.z = 0 ELSE l.z = l.y
C4_Witness ==
    /\ program_debug
    /\ FileWritten
    /\ \E l \in Range(outFile.lines) : IsMotion(l) /\ l.y > 0 /\ l.z = 0

(* C5: an image load that yields no image ends the run at the load step:    *)
(* the script never stands past the load with no image, and no later        *)
(* statement fails on the missing image.                                    *)
C5_LoadFailureEndsAtLoad ==
    /\ (pc = "process" => image # None)
    /\ exitKind # "cv2.error"

(* C6: the output file only ever changes from one complete stream to the    *)
(* complete stream of the current iteration.                                *)
C6_FileNeverPartial ==
    [][outFile'.lines # outFile.lines => outFile'.lines = gcode]_vars

(* C7: after a write the file holds exactly the stream built from an empty  *)
(* buffer over the features of the iteration that wrote it, whatever the    *)
(* earlier iterations wrote.                                                *)
C7_FileIsLatestStream ==
    FileWritten =>
        /\ outFile.exists
        /\ outFile.lines =
              Converted(variant, program_debug, Preamble(program_initial_speed),
                        <<>>, contours, centers)[1]
C7_Witness ==
    /\ variant = "test"
    /\ iteration = 2
    /\ FileWritten
    /\ Len(centers) = 1
    /\ Len(outFile.lines) = 2

(* C8: with an empty configured input every iteration that processes an     *)
(* image holds the camera and processes the frame captured in that very     *)
(* iteration.                                                               *)
InputWasEmpty ==
    program_input_filename \in {"", JoinTemp(""), JoinTemp("webcam_capture.png")}
C8_EmptyInputUsesCamera ==
    (InputWasEmpty /\ pc \in {"import", "process"}) =>
        (cap = "open" /\ captured = iteration)

(* C9: every iteration after the first is preceded by a trigger of its own, *)
(* the script leaves the wait only by a trigger or an interrupt, and it     *)
(* comes back to the top of the loop only from the wait.                    *)
C9_TriggerBetweenIterations ==
    /\ [](iteration <= triggers + 1)
    /\ [][pc = "await" => (pc' = "exited" \/ triggers' = triggers + 1)]_vars
    /\ [][(pc' = "loop" /\ pc # "loop") => pc \in {"start", "await"}]_vars
C9_Witness == iteration = 2 /\ triggers = 1 /\ pc = "process"

(* C10: on every exit the camera handle and the display window are         *)
(* released, and GPIO is cleaned up in pi mode.                             *)
C10_ExitReleasesResources ==
    pc = "exited" =>
        /\ ~window
        /\ cap # "open"
        /\ pi_mode => gpio = "cleaned"

(* C11: in the centroid variant the sorted centers ascend in distance to    *)
(* (max_x/2, max_y/2), and the centers at any one distance are, in order,   *)
(* those of the extraction result at that distance: a stable sort, nothing  *)
(* dropped or duplicated.                                                   *)
AfterSort == pc \in {"init_gcode", "convert", "open", "write", "done", "await"}
AtDistance(s, k) == SelectSeq(s, LAMBDA c : DistKey(c) = k)
CentersComputed == pc = "sort" \/ AfterSort
NonZeroBlobs == {i \in 1..Len(contours) : contours[i].m00 # 0}
MotionLineCount(s) == Cardinality({i \in 1..Len(s) : IsMotion(s[i])})
C12_OneCenterPerNonZeroBlob ==
    (variant = "test" /\ CentersComputed) =>
        /\ Len(centers) = Cardinality(NonZeroBlobs)
        /\ \A c \in Range(centers) :
              \E i \in NonZeroBlobs :
                 c = <<contours[i].m10 \div contours[i].m00,
                       contours[i].m01 \div contours[i].m00>>
        /\ FileWritten =>
              MotionLineCount(outFile.lines) = Cardinality(NonZeroBlobs)
C12_Witness ==
    /\ variant = "test"
    /\ FileWritten
    /\ contours = <<Blob(0, 0, 0), Blob(4, 2001, 2003)>>
    /\ centers = << <<500, 500>> >>
    /\ MotionLineCount(outFile.lines) = 1

(* C13: a blank canvas is no error: the run does not end in an exception   *)
(* on it, and the file written for it holds the feed-rate line of a        *)
(* nonzero initial speed and nothing else.                                  *)
BlankCanvas == image = Img(<<>>)
C13_BlankCanvasCompletes ==
    /\ (BlankCanvas /\ pc = "exited") => exitKind = "interrupt"
    /\ (BlankCanvas /\ FileWritten) =>
          outFile.lines = Preamble(program_initial_speed)

(* C14: the inverse arithmetic (device - border) * 1000 / (max - 2*border)  *)
(* on a mapped, rounded coordinate gives back the canvas coordinate within  *)
(* 0.001, for every coordinate of 0..1000 on each axis, and two different   *)
(* canvas coordinates never map to the same device coordinate.  The         *)
(* distance is compared after multiplying through by 1000 * (max - 2*border) *)
Span(axis) == AxisMax(axis) - 2 * AxisBorder(axis)
InverseError(axis, c, out) ==
    LET e == 1000 * (out - 1000 * AxisBorder(axis)) - 1000 * c * Span(axis)
    IN  IF e < 0 THEN -e ELSE e
MapperRoundTrip ==
    pc = "mapped" => InverseError(mapAxis, mapIn, mapOut) <= Span(mapAxis)
MapperInjective == (pc = "mapped" /\ mapIn' # mapIn) => mapOut' # mapOut
C14_MapperRoundTrip == []MapperRoundTrip /\ [][MapperInjective]_vars
C14_Witness ==
    pc = "mapped" /\ mapAxis = "y" /\ mapIn = 999 /\ mapOut = 497552

====
